---- MODULE Spec2Model ----
(***************************************************************************)
(* A model of src/script.js: the page's three visibility-gated animation   *)
(* loops (sparkle canvas, contact particles, floating wheels) with the     *)
(* frame-handle registry and the teardown hooks, the roadmap widget (car,  *)
(* waypoints, typewriter) and the hero text sequencer.                     *)
(*                                                                         *)
(* The browser is modelled by what the script can observe of it: the list  *)
(* of outstanding animation-frame requests, the timers, and the events it  *)
(* delivers (intersection reports, resize, pagehide, beforeunload, clicks, *)
(* timeupdate, transitionend).  Everything runs on one thread, so every    *)
(* handler is one atomic action.                                           *)
(***************************************************************************)
EXTENDS Integers, Sequences, FiniteSets, TLC

\* ------------------------------------------------------------------ bounds

\* Frame handles handed out by requestAnimationFrame in one run (1..MaxRaf).
MaxRaf == 3

\* Waypoints of the roadmap: pins 1..NumPins, the last one with a label that
\* has no entry in DESCRIPTIONS.
NumPins == 3

\* Length of the shortest description text (the real ones have 60 to 170
\* characters); pin p's text has DescLen + p - 1 characters.
DescLen == 2

\* Interval handles handed out by setInterval in one run (1..MaxTimer).
MaxTimer == 3

\* Select events (click, Enter, Space on a pin) delivered in one run.
MaxSelects == 3

\* The clock advances in steps of TickMs, MaxTicks times in one run.
TickMs == 50
MaxTicks == 12

\* Hero sequences started in one run.
MaxSeq == 2

\* .skill items in the skills section.
NumSkills == 2

\* animateSkills runs whose timers are pending at the same time.
MaxReveals == 2

\* Submits of the contact form in one run.
MaxSubmits == 2

\* Particle positions are followed on a grid of Step px, the distance a
\* particle moves in one frame; canvases are 1..MaxSize steps wide and high.
Step == 10
MaxSize == 2

\* Expected elements that a document lacks at the same time.
MaxAbsent == 2

\* A section is SectionHeight scroll steps high; at most MaxRestores restore
\* timers of the hero arrow are pending at the same time.
SectionHeight == 2
MaxRestores == 2

\* ------------------------------------------------------------- shared state

VARIABLES
  reduceMotion,   \* script.js:23  prefers-reduced-motion, fixed at load
  nextRaf,        \* the handle the next requestAnimationFrame call returns
  frames,         \* outstanding frame requests: records [id, cb]
  _rafIds,        \* script.js:52  the handle registry
  \* sparkle canvas (initSkillsModule)
  sparkleActive, sparkleRafId, sparkleCanvas,
  \* contact particles (initParticlesModule)
  running, rafId, particleCanvas,
  \* floating wheels (initProjectsLayer)
  wheelsRafId, wheelsBuilt,
  \* debounce timers that are pending (debounce keeps at most one per handler)
  debounced,
  \* history: the most recent intersection report per loop and whether a
  \* teardown event was delivered
  lastReport, tornDown,
  \* roadmap widget (initRoadmapModule)
  activePin,      \* script.js:198
  pinActive,      \* the pins carrying the class 'active'
  isMoving,       \* script.js:199
  typingInterval, \* script.js:200
  intervals,      \* running setInterval timers: records [id, pin, i]
  nextTimer,      \* the handle the next setInterval call returns
  descText,       \* the text of #descText
  descLink,       \* the pin whose link is appended to #descText, or Null
  descShown,      \* #descriptionBox carries the class 'show'
  showTimers,     \* pending setTimeout(.., 10) calls of script.js:277
  roadWidth,      \* roadEl.clientWidth, set by the layout
  carX,           \* translateX of #roadCar
  carTransition,  \* carEl.style.transition: "none" or "timed"
  carAnimating,   \* a transition of the car's transform is in progress
  onEnd,          \* the transitionend listener of moveCarTo is installed
  restoreFrame,   \* initCarPosition's requestAnimationFrame is outstanding
  roadResize,     \* debounce(initCarPosition, 120) is pending
  \* history: selects delivered, the pin of the last one, and whether every
  \* pin selected so far has a description; and whether a select started a
  \* session while the interval of an earlier one was running
  selects, lastSelect, allDescribed, cancelledRun,
  \* hero sequencer (initHeroModule)
  now,             \* performance.now(), in ms
  throttleLast,    \* `last` of the throttle wrapper around onTimeUpdate
  lastTimeChecked, \* script.js:125
  playing,         \* script.js:92
  gotStuck, fixIt, \* the inline style of the two texts: [opacity, animation]
  heroTimers,      \* pending setTimeout calls of animateText: [seq, stage]
  seqs,            \* playSequence calls so far
  \* history: sequence starts since the last out-of-window reset, and the
  \* samples delivered so far with what each did, kept while they follow
  \* Script at least HeroLimit ms apart
  startsSinceReset, heroLog, onScript, lastDelivery,
  \* skills reveal and detail typewriter (initSkillsModule)
  skillShow,       \* the .skill items carrying the class 'show'
  skillCenter,     \* ... the class 'center'
  skillFade,       \* ... the class 'fade'
  leftOpen, rightOpen, \* the brackets carry the class 'open'
  skillDesc,       \* the text of #skillDescription
  typingTimeout,   \* script.js:474
  typers,          \* pending setTimeout(typeChar, 40) calls: [id, skill, i]
  reveals,         \* the animateSkills runs in progress, oldest first: the
                   \* stage whose timer is pending
  \* history: the kind of the last skills event (with 1 or 0 for an
  \* 'intersecting' or 'not intersecting' entry), and whether a reveal has run
  skillEv, revealed,
  \* contact form (script.js:731)
  formStatus,      \* the text of .form-status
  formFilled,      \* the form's fields hold what the user typed
  requests,        \* fetch calls awaiting their outcome, by number
  issued,          \* fetch calls made so far
  clearTimers,     \* pending setTimeout(.., 3000) calls of script.js:751
  \* history: the last form event and the outcomes delivered so far
  formEv, formOutcomes,
  \* particle positions: one sparkle, one dust particle, one car particle and
  \* one wheel stand for all of their layer (no update reads another particle)
  sparkleBox,      \* #sparkleCanvas offsetWidth / offsetHeight: [w, h]
  sparkleDim,      \* #sparkleCanvas width / height: [w, h]
  sparkle,         \* a sparkle: [x, y]
  sparkleSizing,   \* debounce(resizeCanvas, 80) is pending
  particleBox,     \* #particlesCanvas offsetWidth / offsetHeight
  particleDim,     \* #particlesCanvas width / height
  dust, car,       \* a Dust and a CarParticle: [x, y]
  particleSizing,  \* debounce(setSize, 80) is pending
  particleReinit,  \* debounce(() => { setSize(); init(); }, 120) is pending
  sectionRect,     \* projectsSection.getBoundingClientRect(): [w, h]
  wheels,          \* the wheels array: empty, or a wheel [x, y, speedX, speedY]
  wheelsReinit,    \* the debounced resize handler of the wheels is pending
  \* history: the last event of a layer
  layerEv,
  \* the page the script runs in, and the bootstrap (script.js:61)
  absent,          \* the expected elements the document does not have
  caps,            \* the capabilities the browser has
  booted,          \* the DOMContentLoaded listener has run
  bootDone,        \* the initializers that returned
  wired,           \* the listeners and observers installed
  errors,          \* where an exception escaped a listener or a callback
  \* page scrolling (script.js:151-181, 294-298, 559-569, 939-956)
  scrollY,         \* window.scrollY
  smooth,          \* the offset an ongoing smooth scroll heads for, or NoScroll
  scrollQueued,    \* a scroll event awaits its dispatch
  htmlOverflow, bodyOverflow, \* the inline overflow of <html> and <body>
  restores,        \* pending setTimeout(.., 800) calls of the hero arrow,
                   \* oldest first: the values they restore [html, body]
  \* history: the offset of the section the last activated control names,
  \* the last scroll-related event, and the inline overflow of <html> and
  \* <body> when the page was loaded: [html, body]
  navTarget, scrollEv, overflowAtLoad

loopVars == <<reduceMotion, nextRaf, frames, _rafIds,
              sparkleActive, sparkleRafId, sparkleCanvas,
              running, rafId, particleCanvas,
              wheelsRafId, wheelsBuilt, debounced, lastReport, tornDown>>

roadVars == <<activePin, pinActive, isMoving, typingInterval, intervals, nextTimer,
              descText, descLink, descShown, showTimers, roadWidth, carX,
              carTransition, carAnimating, onEnd, restoreFrame, roadResize,
              selects, lastSelect, allDescribed, cancelledRun>>

heroVars == <<now, throttleLast, lastTimeChecked, playing, gotStuck, fixIt,
              heroTimers, seqs, startsSinceReset, heroLog, onScript, lastDelivery>>

skillVars == <<skillShow, skillCenter, skillFade, leftOpen, rightOpen, skillDesc,
               typingTimeout, typers, reveals, skillEv, revealed>>

formVars == <<formStatus, formFilled, requests, issued, clearTimers, formEv, formOutcomes>>

sparkleFieldVars == <<sparkleBox, sparkleDim, sparkle, sparkleSizing>>
particleFieldVars == <<particleBox, particleDim, dust, car, particleSizing, particleReinit>>
wheelFieldVars == <<sectionRect, wheels, wheelsReinit>>
layerVars == <<sparkleFieldVars, particleFieldVars, wheelFieldVars, layerEv>>

bootVars == <<absent, caps, booted, bootDone, wired, errors>>

scrollVars == <<scrollY, smooth, scrollQueued, htmlOverflow, bodyOverflow, restores,
                navTarget, scrollEv, overflowAtLoad>>

vars == <<loopVars, roadVars, heroVars, skillVars, formVars, layerVars, bootVars, scrollVars>>

\* What an action of the loops, the roadmap or the hero leaves alone besides
\* the other two: the load-time environment and the remaining modules.
UnchangedEnv == UNCHANGED <<reduceMotion, skillVars, formVars, layerVars, bootVars, scrollVars>>
UnchangedRoad == UNCHANGED roadVars
UnchangedHero == UNCHANGED heroVars

Loops == {"sparkle", "particles", "wheels"}

\* null handle (script.js:390, 675, 843)
Null == 0

\* ------------------------------------------------ frame requests, registry

\* The frame-request bookkeeping as one value: the next handle, the
\* outstanding requests and the registry.
RafState == [next |-> nextRaf, frames |-> frames, ids |-> _rafIds]

SetRaf(R) ==
  /\ nextRaf' = R.next
  /\ frames' = R.frames
  /\ _rafIds' = R.ids

\* window.requestAnimationFrame(cb): the handle returned is R.next.
raf(R, cb) ==
  [R EXCEPT !.next = @ + 1, !.frames = @ \cup {[id |-> R.next, cb |-> cb]}]

\* window.cancelAnimationFrame(id): a handle that is not outstanding is ignored.
cancelRaf(R, id) == [R EXCEPT !.frames = {f \in @ : f.id # id}]

pushRaf(R, id) == IF id # Null THEN [R EXCEPT !.ids = Append(@, id)] ELSE R

RECURSIVE stopRafs(_)
stopRafs(R) ==
  IF R.ids = <<>> THEN R
  ELSE LET n == Len(R.ids)
       IN stopRafs(cancelRaf([R EXCEPT !.ids = SubSeq(@, 1, n - 1)], R.ids[n]))

FramesOf(loop) == {f \in frames : f.cb = loop}

\* ---------------------------------------------------------- sparkle canvas

SparkleState == [active |-> sparkleActive, rafId |-> sparkleRafId, canvas |-> sparkleCanvas]

SetSparkle(S) ==
  /\ sparkleActive' = S.active
  /\ sparkleRafId' = S.rafId
  /\ sparkleCanvas' = S.canvas

\* Each call of a loop's function yields the loop's state, the frame
\* bookkeeping, and drew: whether it drew and requested the next frame.
drawSparkles(S, R) ==
  IF ~S.active \/ reduceMotion
  THEN [s |-> [S EXCEPT !.canvas = "clear", !.rafId = Null], r |-> R, drew |-> FALSE]
  ELSE [s |-> [S EXCEPT !.canvas = "drawn", !.rafId = R.next],
        r |-> pushRaf(raf(R, "sparkle"), R.next),
        drew |-> TRUE]

\* sparkleObserver without the `!sparkleRafId` test before drawSparkles()
sparkleObserverUnguarded(S, R, isIntersecting) ==
  LET S1 == [S EXCEPT !.active = isIntersecting]
      A == IF S1.active /\ ~reduceMotion
           THEN drawSparkles(S1, R)
           ELSE [s |-> S1, r |-> R, drew |-> FALSE]
  IN IF ~A.s.active /\ A.s.rafId # Null
     THEN [s |-> [A.s EXCEPT !.rafId = Null, !.canvas = "clear"],
           r |-> cancelRaf(A.r, A.s.rafId),
           drew |-> A.drew]
     ELSE A

\* the IntersectionObserver callback `so`, for one entry
sparkleObserver(S, R, isIntersecting) ==
  LET S1 == [S EXCEPT !.active = isIntersecting]
      A == IF S1.active /\ ~reduceMotion /\ S1.rafId = Null
           THEN drawSparkles(S1, R)
           ELSE [s |-> S1, r |-> R, drew |-> FALSE]
  IN IF ~A.s.active /\ A.s.rafId # Null
     THEN [s |-> [A.s EXCEPT !.rafId = Null, !.canvas = "clear"],
           r |-> cancelRaf(A.r, A.s.rafId),
           drew |-> A.drew]
     ELSE A

\* debounce(resizeCanvas): assigning canvas.width resets the bitmap
resizeCanvas(S) == [S EXCEPT !.canvas = "clear"]

\* -------------------------------------------------------- contact particles

ParticleState == [running |-> running, rafId |-> rafId, canvas |-> particleCanvas]

SetParticles(P) ==
  /\ running' = P.running
  /\ rafId' = P.rafId
  /\ particleCanvas' = P.canvas

loop(P, R) ==
  IF ~P.running \/ reduceMotion
  THEN [p |-> P, r |-> R, drew |-> FALSE]
  ELSE [p |-> [P EXCEPT !.canvas = "drawn", !.rafId = R.next],
        r |-> pushRaf(raf(R, "particles"), R.next),
        drew |-> TRUE]

\* the IntersectionObserver callback `vis` of the particles, for one entry
particlesObserver(P, R, isIntersecting) ==
  LET P1 == [P EXCEPT !.running = isIntersecting]
  IN IF P1.running /\ ~reduceMotion
     THEN loop(P1, R)
     ELSE [p |-> P1, r |-> R, drew |-> FALSE]

setSize(P) == [P EXCEPT !.canvas = "clear"]

\* ---------------------------------------------------------- floating wheels

WheelState == [rafId |-> wheelsRafId, built |-> wheelsBuilt]

SetWheels(W) ==
  /\ wheelsRafId' = W.rafId
  /\ wheelsBuilt' = W.built

initWheels(W) == [W EXCEPT !.built = TRUE]

animateWheels(W, R) ==
  [w |-> [W EXCEPT !.rafId = R.next],
   r |-> pushRaf(raf(R, "wheels"), R.next),
   drew |-> TRUE]

\* the IntersectionObserver callback `vis` of the wheels, for one entry
wheelsObserver(W, R, isIntersecting) ==
  IF isIntersecting /\ ~reduceMotion
  THEN animateWheels(initWheels(W), R)
  ELSE IF W.rafId # Null
       THEN [w |-> [W EXCEPT !.rafId = Null], r |-> cancelRaf(R, W.rafId), drew |-> FALSE]
       ELSE [w |-> W, r |-> R, drew |-> FALSE]

\* the debounced resize handler of the wheels
wheelsResize(W, R) ==
  IF W.rafId # Null
  THEN animateWheels(initWheels([W EXCEPT !.rafId = Null]), cancelRaf(R, W.rafId))
  ELSE animateWheels(initWheels(W), R)

\* ---------------------------------------------------------- roadmap widget

Pins == 1..NumPins

\* The pins whose label is a key of DESCRIPTIONS (script.js:203-225).
Described == 1..(NumPins - 1)

\* DESCRIPTIONS[label].text for pin p, as a sequence of characters: character
\* k of pin p's text is <<p, k>>, so no two texts share a character (the real
\* texts start with different letters).
DescriptionText(p) == [k \in 1..(DescLen + p - 1) |-> <<p, k>>]

\* Widths of the road element the layout can give, and the car's width.
RoadWidths == {12, 24}
CarWidth == 6

Max(a, b) == IF a >= b THEN a ELSE b
Min(a, b) == IF a <= b THEN a ELSE b

\* Math.round of n / 2 (a half rounds up)
RoundHalf(n) == (n + 1) \div 2

\* centerOfPin(pin) with the pins spaced evenly along a road of width w
centerOfPin(pin, w) == ((2 * pin - 1) * w) \div (2 * NumPins)

TypingState ==
  [typingInterval |-> typingInterval, intervals |-> intervals, nextTimer |-> nextTimer,
   descText |-> descText, descLink |-> descLink, descShown |-> descShown,
   showTimers |-> showTimers]

SetTyping(T) ==
  /\ typingInterval' = T.typingInterval
  /\ intervals' = T.intervals
  /\ nextTimer' = T.nextTimer
  /\ descText' = T.descText
  /\ descLink' = T.descLink
  /\ descShown' = T.descShown
  /\ showTimers' = T.showTimers

CarState ==
  [isMoving |-> isMoving, carX |-> carX, carTransition |-> carTransition,
   carAnimating |-> carAnimating, onEnd |-> onEnd, restoreFrame |-> restoreFrame]

SetCar(C) ==
  /\ isMoving' = C.isMoving
  /\ carX' = C.carX
  /\ carTransition' = C.carTransition
  /\ carAnimating' = C.carAnimating
  /\ onEnd' = C.onEnd
  /\ restoreFrame' = C.restoreFrame

\* moveCarTo without the isMoving test of its first line
moveCarToUnguarded(C, pin, w) ==
  LET maxX == Max(0, w - CarWidth)
      target2 == Max(0, Min(2 * centerOfPin(pin, w) - CarWidth, 2 * maxX))
      x == RoundHalf(target2)
  IN [C EXCEPT !.isMoving = TRUE,
               !.carTransition = "timed",
               !.carX = x,
               !.carAnimating = (x # C.carX),
               !.onEnd = TRUE]

\* The transform changes under a timed transition exactly when the new offset
\* differs from the current one; only then will transitionend fire.
moveCarTo(C, pin, w) ==
  IF C.isMoving THEN C
  ELSE LET maxX == Max(0, w - CarWidth)
           target2 == Max(0, Min(2 * centerOfPin(pin, w) - CarWidth, 2 * maxX))
           x == RoundHalf(target2)
       IN [C EXCEPT !.isMoving = TRUE,
                    !.carTransition = "timed",
                    !.carX = x,
                    !.carAnimating = (x # C.carX),
                    !.onEnd = TRUE]

clearTyping(T) ==
  IF T.typingInterval # Null
  THEN [T EXCEPT !.intervals = {t \in @ : t.id # T.typingInterval},
                 !.typingInterval = Null]
  ELSE T

\* showDescriptionForPin without the clearTyping() call
showDescriptionNoClear(T, pin) ==
  IF pin \notin Described THEN T
  ELSE [T EXCEPT !.descText = <<>>,
                 !.descLink = Null,
                 !.descShown = FALSE,
                 !.showTimers = @ + 1,
                 !.typingInterval = T.nextTimer,
                 !.nextTimer = @ + 1,
                 !.intervals = @ \cup {[id |-> T.nextTimer, pin |-> pin, i |-> 0]}]

showDescriptionForPin(T, pin) ==
  IF pin \notin Described THEN T
  ELSE LET T1 == clearTyping(T)
       IN [T1 EXCEPT !.descText = <<>>,
                     !.descLink = Null,
                     !.descShown = FALSE,
                     !.showTimers = @ + 1,
                     !.typingInterval = T1.nextTimer,
                     !.nextTimer = @ + 1,
                     !.intervals = @ \cup {[id |-> T1.nextTimer, pin |-> pin, i |-> 0]}]

\* The interval callback without the clearTyping() call of its last firing
typeTickKeepsInterval(T, t) ==
  LET full == DescriptionText(t.pin)
      i1 == t.i + 1
      T1 == [T EXCEPT !.descText = SubSeq(full, 1, Min(i1, Len(full))),
                      !.descLink = Null,
                      !.intervals = (@ \ {t}) \cup {[t EXCEPT !.i = Min(i1, Len(full))]}]
  IN IF i1 >= Len(full)
     THEN [T1 EXCEPT !.descLink = t.pin]
     ELSE T1

\* One firing of the setInterval callback of interval t (script.js:282-301).
typeTick(T, t) ==
  LET full == DescriptionText(t.pin)
      i1 == t.i + 1
      T1 == [T EXCEPT !.descText = SubSeq(full, 1, Min(i1, Len(full))),
                      !.descLink = Null,
                      !.intervals = (@ \ {t}) \cup {[t EXCEPT !.i = i1]}]
  IN IF i1 >= Len(full)
     THEN [clearTyping(T1) EXCEPT !.descLink = t.pin]
     ELSE T1

initCarPosition(C, pin, w) ==
  [C EXCEPT !.carTransition = "none",
            !.carX = RoundHalf(2 * centerOfPin(pin, w) - CarWidth),
            !.carAnimating = FALSE,
            !.restoreFrame = TRUE]

\* the click handler of a pin; keydown Enter / Space calls pin.click()
pinClickAlways(A, pin) ==
  [active |-> pin,
   classes |-> (A.classes \ {A.active}) \cup {pin},
   car |-> moveCarTo(A.car, pin, A.w),
   typing |-> showDescriptionForPin(A.typing, pin),
   w |-> A.w]

pinClick(A, pin) ==
  IF A.active # pin
  THEN [active |-> pin,
        classes |-> (A.classes \ {A.active}) \cup {pin},
        car |-> moveCarTo(A.car, pin, A.w),
        typing |-> showDescriptionForPin(A.typing, pin),
        w |-> A.w]
  ELSE A

RoadState ==
  [active |-> activePin, classes |-> pinActive, car |-> CarState,
   typing |-> TypingState, w |-> roadWidth]

SetRoad(A) ==
  /\ activePin' = A.active
  /\ pinActive' = A.classes
  /\ SetCar(A.car)
  /\ SetTyping(A.typing)
  /\ roadWidth' = A.w

\* The state after initRoadmapModule with a road of width w: the first pin
\* is active, the car was placed by initCarPosition and the first pin's
\* description was started.
RoadInitAt(w) ==
  LET C == initCarPosition(
             [isMoving |-> FALSE, carX |-> 0, carTransition |-> "timed",
              carAnimating |-> FALSE, onEnd |-> FALSE, restoreFrame |-> FALSE], 1, w)
      T == showDescriptionForPin(
             [typingInterval |-> Null, intervals |-> {}, nextTimer |-> 1,
              descText |-> <<>>, descLink |-> Null, descShown |-> FALSE,
              showTimers |-> 0], 1)
  IN /\ activePin = 1
     /\ pinActive = {1}
     /\ roadWidth = w
     /\ isMoving = C.isMoving
     /\ carX = C.carX
     /\ carTransition = C.carTransition
     /\ carAnimating = C.carAnimating
     /\ onEnd = C.onEnd
     /\ restoreFrame = C.restoreFrame
     /\ typingInterval = T.typingInterval
     /\ intervals = T.intervals
     /\ nextTimer = T.nextTimer
     /\ descText = T.descText
     /\ descLink = T.descLink
     /\ descShown = T.descShown
     /\ showTimers = T.showTimers
     /\ roadResize = FALSE
     /\ selects = 0
     /\ lastSelect = 0
     /\ allDescribed = TRUE
     /\ cancelledRun = FALSE

UnchangedLoops == UNCHANGED <<nextRaf, frames, _rafIds, sparkleActive, sparkleRafId,
                              sparkleCanvas, running, rafId, particleCanvas, wheelsRafId,
                              wheelsBuilt, debounced, lastReport, tornDown>>

UnchangedCar == UNCHANGED <<isMoving, carX, carTransition, carAnimating, onEnd, restoreFrame>>

UnchangedTyping == UNCHANGED <<typingInterval, intervals, nextTimer, descText, descLink,
                               descShown, showTimers>>

UnchangedSelects == UNCHANGED <<selects, lastSelect, allDescribed, cancelledRun>>

\* A pin is selected (click, or Enter / Space on the focused pin).
Select(pin) ==
  LET A == pinClick(RoadState, pin)
  IN /\ selects < MaxSelects
     /\ A.typing.nextTimer <= MaxTimer + 1
     /\ SetRoad(A)
     /\ selects' = selects + 1
     /\ lastSelect' = pin
     /\ allDescribed' = (allDescribed /\ pin \in Described)
     /\ cancelledRun' = (cancelledRun \/ (typingInterval # Null /\ A.typing.nextTimer # nextTimer))
     /\ UNCHANGED roadResize
     /\ UnchangedLoops /\ UnchangedEnv /\ UnchangedHero

\* The typing interval t fires.
TypeTick ==
  \E t \in intervals :
    /\ SetTyping(typeTick(TypingState, t))
    /\ UNCHANGED <<activePin, pinActive, roadWidth, roadResize>>
    /\ UnchangedCar /\ UnchangedSelects /\ UnchangedLoops /\ UnchangedEnv /\ UnchangedHero

\* A setTimeout(() => descWrapperEl.classList.add('show'), 10) fires.
ShowTimer ==
  /\ showTimers > 0
  /\ showTimers' = showTimers - 1
  /\ descShown' = TRUE
  /\ UNCHANGED <<typingInterval, intervals, nextTimer, descText, descLink>>
  /\ UNCHANGED <<activePin, pinActive, roadWidth, roadResize>>
  /\ UnchangedCar /\ UnchangedSelects /\ UnchangedLoops /\ UnchangedEnv /\ UnchangedHero

\* The car's transition ran to completion: transitionend is dispatched.
TransitionEnd ==
  /\ carAnimating
  /\ carAnimating' = FALSE
  /\ isMoving' = (IF onEnd THEN FALSE ELSE isMoving)
  /\ onEnd' = FALSE
  /\ UNCHANGED <<carX, carTransition, restoreFrame>>
  /\ UNCHANGED <<activePin, pinActive, roadWidth, roadResize>>
  /\ UnchangedTyping /\ UnchangedSelects /\ UnchangedLoops /\ UnchangedEnv /\ UnchangedHero

\* The window is resized: the road gets another width and the roadmap's
\* debounce wrapper restarts its timer (script.js:341).
RoadResize(w) ==
  /\ w # roadWidth
  /\ roadWidth' = w
  /\ roadResize' = TRUE
  /\ UNCHANGED <<activePin, pinActive>>
  /\ UnchangedCar /\ UnchangedTyping /\ UnchangedSelects /\ UnchangedLoops /\ UnchangedEnv /\ UnchangedHero

\* debounce(initCarPosition, 120) fires.
RoadResized ==
  /\ roadResize
  /\ roadResize' = FALSE
  /\ SetCar(initCarPosition(CarState, activePin, roadWidth))
  /\ UNCHANGED <<activePin, pinActive, roadWidth>>
  /\ UnchangedTyping /\ UnchangedSelects /\ UnchangedLoops /\ UnchangedEnv /\ UnchangedHero

\* The frame requested by initCarPosition fires (script.js:332-334).
RestoreTransition ==
  /\ restoreFrame
  /\ restoreFrame' = FALSE
  /\ carTransition' = "timed"
  /\ UNCHANGED <<isMoving, carX, carAnimating, onEnd>>
  /\ UNCHANGED <<activePin, pinActive, roadWidth, roadResize>>
  /\ UnchangedTyping /\ UnchangedSelects /\ UnchangedLoops /\ UnchangedEnv /\ UnchangedHero

\* pagehide: the roadmap's listener (script.js:344) calls clearTyping().
RoadPageHide ==
  /\ SetTyping(clearTyping(TypingState))
  /\ UNCHANGED <<activePin, pinActive, roadWidth, roadResize>>
  /\ UnchangedCar /\ UnchangedSelects /\ UnchangedLoops /\ UnchangedEnv /\ UnchangedHero

RoadNext ==
  \/ \E pin \in Pins : Select(pin)
  \/ TypeTick
  \/ ShowTimer
  \/ TransitionEnd
  \/ \E w \in RoadWidths : RoadResize(w)
  \/ RoadResized
  \/ RestoreTransition
  \/ RoadPageHide


\* ----------------------------------------------------------- hero sequencer

CAR_ARRIVAL == 2
CAR_LEAVE == 6

\* the limit of throttle(onTimeUpdate, 100), in ms
HeroLimit == 100

\* Video times are counted in twentieths of a second.
Sec(n) == n * 20

\* 0.1 s, the smallest change of currentTime that is looked at
MinDelta == Sec(1) \div 10

\* isNaN(video.currentTime): currentTime is never negative, so a negative
\* number stands for NaN
NaN == -2

\* The values of video.currentTime the samples are drawn from:
\* 1.0, 1.95, 2.0, 3.0, 6.0, 6.05 and NaN.
Samples == {Sec(1), Sec(2) - 1, Sec(2), Sec(3), Sec(6), Sec(6) + 1, NaN}

Abs(x) == IF x < 0 THEN -x ELSE x

Hidden == [opacity |-> "0", animation |-> "none"]

HeroState ==
  [playing |-> playing, lastTimeChecked |-> lastTimeChecked, gotStuck |-> gotStuck,
   fixIt |-> fixIt, timers |-> heroTimers, seqs |-> seqs, ev |-> "none"]

resetTexts(H) == [H EXCEPT !.gotStuck = Hidden, !.fixIt = Hidden]

\* playSequence: resetTexts, then animateText twice; each animateText sets a
\* fade-in and a fade-out timer.  Stage 1, 2: gotStuck in (0 s), out (1.5 s);
\* stage 3, 4: fixIt in (2 s), out (3.5 s).
playSequence(H) ==
  [resetTexts(H) EXCEPT !.seqs = @ + 1,
                        !.timers = @ \cup {[seq |-> H.seqs + 1, stage |-> k] : k \in 1..4}]

InWindow(current) == current >= Sec(CAR_ARRIVAL) /\ current < Sec(CAR_LEAVE)

\* onTimeUpdate without the `!playing` test
onTimeUpdateReplay(H, current) ==
  IF current = NaN THEN H
  ELSE IF Abs(current - H.lastTimeChecked) < MinDelta THEN H
  ELSE LET H1 == [H EXCEPT !.lastTimeChecked = current]
       IN IF InWindow(current)
          THEN [playSequence([H1 EXCEPT !.playing = TRUE]) EXCEPT !.ev = "start"]
          ELSE IF current >= Sec(CAR_LEAVE) \/ current < Sec(CAR_ARRIVAL)
               THEN [resetTexts([H1 EXCEPT !.playing = FALSE]) EXCEPT !.ev = "reset"]
               ELSE H1

\* the body of onTimeUpdate (inside the throttle); ev records what it did
onTimeUpdate(H, current) ==
  IF current = NaN THEN H
  ELSE IF Abs(current - H.lastTimeChecked) < MinDelta THEN H
  ELSE LET H1 == [H EXCEPT !.lastTimeChecked = current]
       IN IF InWindow(current) /\ ~H1.playing
          THEN [playSequence([H1 EXCEPT !.playing = TRUE]) EXCEPT !.ev = "start"]
          ELSE IF current >= Sec(CAR_LEAVE) \/ current < Sec(CAR_ARRIVAL)
               THEN [resetTexts([H1 EXCEPT !.playing = FALSE]) EXCEPT !.ev = "reset"]
               ELSE H1

\* throttle(fn, limit) called at time t: fn runs when t - last >= limit
throttle(H, last, t, current) ==
  IF t - last >= HeroLimit
  THEN [h |-> onTimeUpdate(H, current), last |-> t]
  ELSE [h |-> H, last |-> last]

\* The state after initHeroModule: with reduced motion the texts are shown
\* statically and no timeupdate listener is installed.
HeroInit ==
  /\ now = 0
  /\ throttleLast = 0
  /\ lastTimeChecked = -Sec(1)
  /\ playing = FALSE
  /\ gotStuck = [opacity |-> IF reduceMotion THEN "1" ELSE "", animation |-> ""]
  /\ fixIt = [opacity |-> IF reduceMotion THEN "1" ELSE "", animation |-> ""]
  /\ heroTimers = {}
  /\ seqs = 0
  /\ startsSinceReset = 0
  /\ heroLog = <<>>
  /\ onScript = TRUE
  /\ lastDelivery = -1

\* The sample sequence of the spec's scenario: 1.0, 2.0, 3.0, 6.0, 6.0, 1.0.
Script == <<Sec(1), Sec(2), Sec(3), Sec(6), Sec(6), Sec(1)>>

\* The clock advances.
Tick ==
  /\ now + TickMs <= TickMs * MaxTicks
  /\ now' = now + TickMs
  /\ UNCHANGED <<throttleLast, lastTimeChecked, playing, gotStuck, fixIt, heroTimers,
                 seqs, startsSinceReset, heroLog, onScript, lastDelivery>>
  /\ UnchangedLoops /\ UnchangedEnv /\ UnchangedRoad

\* The video dispatches timeupdate with currentTime = current.
TimeUpdate(current) ==
  LET o == throttle(HeroState, throttleLast, now, current)
      follows == /\ onScript
                 /\ Len(heroLog) < Len(Script)
                 /\ current = Script[Len(heroLog) + 1]
                 /\ (lastDelivery < 0 \/ now - lastDelivery >= HeroLimit)
  IN /\ ~reduceMotion
     /\ o.h.seqs <= MaxSeq
     /\ throttleLast' = o.last
     /\ lastTimeChecked' = o.h.lastTimeChecked
     /\ playing' = o.h.playing
     /\ gotStuck' = o.h.gotStuck
     /\ fixIt' = o.h.fixIt
     /\ heroTimers' = o.h.timers
     /\ seqs' = o.h.seqs
     /\ startsSinceReset' = (IF o.h.ev = "start" THEN Min(2, startsSinceReset + 1)
                             ELSE IF o.h.ev = "reset" THEN 0 ELSE startsSinceReset)
     /\ onScript' = follows
     /\ heroLog' = (IF follows THEN Append(heroLog, [t |-> current, ev |-> o.h.ev]) ELSE <<>>)
     /\ lastDelivery' = now
     /\ UNCHANGED now
     /\ UnchangedLoops /\ UnchangedEnv /\ UnchangedRoad

\* A timer fires no later than the timers due after it: the stages of one
\* sequence in order, and a stage of an older sequence before the same stage
\* of a newer one.
Due(t) == \A u \in heroTimers : (u.seq <= t.seq /\ u.stage <= t.stage) => u = t

\* One setTimeout callback of animateText fires.
HeroTimer ==
  \E t \in heroTimers :
    /\ Due(t)
    /\ heroTimers' = heroTimers \ {t}
    /\ gotStuck' = (IF t.stage = 1 THEN [gotStuck EXCEPT !.animation = "fadeInText"]
                    ELSE IF t.stage = 2 THEN [gotStuck EXCEPT !.animation = "fadeOutText"]
                    ELSE gotStuck)
    /\ fixIt' = (IF t.stage = 3 THEN [fixIt EXCEPT !.animation = "fadeInText"]
                 ELSE IF t.stage = 4 THEN [fixIt EXCEPT !.animation = "fadeOutRight"]
                 ELSE fixIt)
    /\ UNCHANGED <<now, throttleLast, lastTimeChecked, playing, seqs, startsSinceReset,
                   heroLog, onScript, lastDelivery>>
    /\ UnchangedLoops /\ UnchangedEnv /\ UnchangedRoad

HeroNext ==
  \/ Tick
  \/ \E current \in Samples : TimeUpdate(current)
  \/ HeroTimer


\* ------------------------------------------------------------ skills module

Skills == 1..NumSkills

\* skill.dataset.desc: item s has DescLen + s - 1 characters, all distinct.
SkillText(s) == [k \in 1..(DescLen + s - 1) |-> <<s, k>>]

\* The reveal and the typewriter as one value.
SkillState ==
  [show |-> skillShow, center |-> skillCenter, fade |-> skillFade,
   left |-> leftOpen, right |-> rightOpen, desc |-> skillDesc,
   timeout |-> typingTimeout, typers |-> typers, reveals |-> reveals,
   box |-> "#skillDescription" \notin absent, thrown |-> FALSE]

SetSkills(K) ==
  /\ skillShow' = K.show
  /\ skillCenter' = K.center
  /\ skillFade' = K.fade
  /\ leftOpen' = K.left
  /\ rightOpen' = K.right
  /\ skillDesc' = K.desc
  /\ typingTimeout' = K.timeout
  /\ typers' = K.typers
  /\ reveals' = K.reveals

\* The handle setTimeout returns: one that names no pending timer and that
\* typingTimeout does not hold.
FreshTimer(K) ==
  CHOOSE n \in 1..(Cardinality(K.typers) + 2) :
    n # K.timeout /\ \A t \in K.typers : t.id # n

\* clearTimeout(typingTimeout)
clearTypingTimeout(K) == [K EXCEPT !.typers = {t \in @ : t.id # K.timeout}]

\* typeChar of the click on item s, with its counter at i: one character is
\* appended and the next call is scheduled. skillDescBox.textContent is read
\* without a test of skillDescBox: a TypeError when the box is absent.
typeChar(K, s, i) ==
  IF i < Len(SkillText(s))
  THEN IF K.box
       THEN LET id == FreshTimer(K)
            IN [K EXCEPT !.desc = Append(@, SkillText(s)[i + 1]),
                         !.timeout = id,
                         !.typers = @ \cup {[id |-> id, skill |-> s, i |-> i + 1]}]
       ELSE [K EXCEPT !.thrown = TRUE]
  ELSE K

\* The click handler of item s.
skillClick(K, s) ==
  LET isActive == s \in K.center
      K1 == [clearTypingTimeout(K) EXCEPT !.center = {}, !.fade = {}, !.desc = <<>>]
  IN IF isActive THEN K1
     ELSE typeChar([K1 EXCEPT !.center = {s}, !.fade = Skills \ {s}], s, 0)

\* The keydown handler of item s.
skillKeydown(K, s, key) == IF key \in {"Enter", " "} THEN skillClick(K, s) ELSE K

\* animateSkills: the classes, the description and the brackets are reset and
\* a staged run starts. The timers of one run fire in the order of their
\* delays, so a run is the stage whose timer is pending: 1 the left bracket
\* (100 ms), 2 the right bracket (400 ms), 3 the items timer (1000 ms), 3 + i
\* the 'show' timer of item i (i * 200 ms later).
animateSkills(K) ==
  [K EXCEPT !.show = {}, !.center = {}, !.fade = {}, !.desc = <<>>,
            !.left = FALSE, !.right = FALSE, !.reveals = Append(@, 1)]

\* A revealObserver that reveals once per page load.
revealObserverOnce(K, isIntersecting) ==
  IF isIntersecting /\ ~revealed
  THEN IF ~reduceMotion THEN animateSkills(K)
       ELSE [K EXCEPT !.show = Skills, !.left = TRUE, !.right = TRUE]
  ELSE K

\* The callback of revealObserver for one entry.
revealObserver(K, isIntersecting) ==
  IF isIntersecting
  THEN IF ~reduceMotion THEN animateSkills(K)
       ELSE [K EXCEPT !.show = Skills, !.left = TRUE, !.right = TRUE]
  ELSE K

\* The pending timer of run j fires.
revealTimer(K, j) ==
  LET stage == K.reveals[j]
      K1 == IF stage = 1 THEN [K EXCEPT !.left = TRUE]
            ELSE IF stage = 2 THEN [K EXCEPT !.right = TRUE]
            ELSE IF stage = 3 THEN K
            ELSE [K EXCEPT !.show = @ \cup {stage - 3}]
  IN IF stage = 3 + NumSkills
     THEN [K1 EXCEPT !.reveals = SubSeq(@, 1, j - 1) \o SubSeq(@, j + 1, Len(@))]
     ELSE [K1 EXCEPT !.reveals[j] = stage + 1]

\* initSkillsModule: nothing is shown, centered or typed.
SkillsInit ==
  /\ skillShow = {}
  /\ skillCenter = {}
  /\ skillFade = {}
  /\ leftOpen = FALSE
  /\ rightOpen = FALSE
  /\ skillDesc = <<>>
  /\ typingTimeout = Null
  /\ typers = {}
  /\ reveals = <<>>
  /\ skillEv = [type |-> "init", n |-> 0]
  /\ revealed = FALSE

\* What an action of the skills module leaves alone.
UnchangedBySkills == UNCHANGED <<loopVars, roadVars, heroVars, formVars, layerVars, bootVars, scrollVars>>

\* revealObserver delivers an entry for the skills section.
RevealIntersect(b) ==
  LET K == revealObserver(SkillState, b)
  IN /\ Len(K.reveals) <= MaxReveals
     /\ SetSkills(K)
     /\ skillEv' = [type |-> "reveal", n |-> IF b THEN 1 ELSE 0]
     /\ revealed' = (revealed \/ b)
     /\ UnchangedBySkills

\* Item s is clicked.
SkillClick(s) ==
  /\ SetSkills(skillClick(SkillState, s))
  /\ skillEv' = [type |-> "click", n |-> 0]
  /\ UNCHANGED revealed
  /\ UnchangedBySkills

SkillKeys == {"Enter", " ", "Tab"}

\* A key goes down on item s.
SkillKeydown(s, key) ==
  /\ SetSkills(skillKeydown(SkillState, s, key))
  /\ skillEv' = [type |-> IF key \in {"Enter", " "} THEN "click" ELSE "keydown", n |-> 0]
  /\ UNCHANGED revealed
  /\ UnchangedBySkills

\* A pending setTimeout(typeChar, 40) fires.
TypeChar ==
  \E t \in typers :
    /\ SetSkills(typeChar([SkillState EXCEPT !.typers = @ \ {t}], t.skill, t.i))
    /\ skillEv' = [type |-> "typeChar", n |-> 0]
    /\ UNCHANGED revealed
    /\ UnchangedBySkills

\* A timer of animateSkills fires: of the oldest run, or of a run that the
\* run before it is ahead of.
RevealTimer ==
  \E j \in 1..Len(reveals) :
    /\ IF j = 1 THEN TRUE ELSE reveals[j - 1] > reveals[j]
    /\ SetSkills(revealTimer(SkillState, j))
    /\ skillEv' = [type |-> "timer", n |-> 0]
    /\ UNCHANGED revealed
    /\ UnchangedBySkills

\* pagehide (script.js:512)
SkillsPageHide ==
  /\ SetSkills(clearTypingTimeout(SkillState))
  /\ skillEv' = [type |-> "pagehide", n |-> 0]
  /\ UNCHANGED revealed
  /\ UnchangedBySkills

SkillsNext ==
  \/ \E b \in BOOLEAN : RevealIntersect(b)
  \/ \E s \in Skills : SkillClick(s)
  \/ \E s \in Skills, key \in SkillKeys : SkillKeydown(s, key)
  \/ TypeChar
  \/ RevealTimer
  \/ SkillsPageHide


\* -------------------------------------------------------------- contact form

\* The status texts of script.js:737, 749, 753, 756 and the cleared status.
Sending == "Sending..."
Success == "Message sent successfully!"
Failure == "Something went wrong. Try again."
NetworkError == "Network error. Please try again."
Empty == ""

\* How a fetch ends: a response with ok, a response without, or a rejection.
Outcomes == {"ok", "notok", "reject"}

FormState ==
  [status |-> formStatus, filled |-> formFilled, requests |-> requests,
   issued |-> issued, timers |-> clearTimers]

SetForm(F) ==
  /\ formStatus' = F.status
  /\ formFilled' = F.filled
  /\ requests' = F.requests
  /\ issued' = F.issued
  /\ clearTimers' = F.timers

\* The submit handler up to its await: the status says sending and one
\* fetch is made.
formSubmit(F) ==
  [F EXCEPT !.status = Sending,
            !.issued = @ + 1,
            !.requests = @ \cup {F.issued + 1}]

\* A handler whose success branch starts no timer.
formSettledNoTimer(F, r, outcome) ==
  LET F1 == [F EXCEPT !.requests = @ \ {r}]
  IN IF outcome = "ok" THEN [F1 EXCEPT !.status = Success, !.filled = FALSE]
     ELSE IF outcome = "notok" THEN [F1 EXCEPT !.status = Failure]
     ELSE [F1 EXCEPT !.status = NetworkError]

\* A handler with one message for both failures.
formSettledOneMessage(F, r, outcome) ==
  LET F1 == [F EXCEPT !.requests = @ \ {r}]
  IN IF outcome = "ok"
     THEN [F1 EXCEPT !.status = Success, !.filled = FALSE, !.timers = @ + 1]
     ELSE [F1 EXCEPT !.status = Failure]

\* The rest of the submit handler, once the fetch r has ended with outcome.
formSettled(F, r, outcome) ==
  LET F1 == [F EXCEPT !.requests = @ \ {r}]
  IN IF outcome = "ok"
     THEN [F1 EXCEPT !.status = Success, !.filled = FALSE, !.timers = @ + 1]
     ELSE IF outcome = "notok" THEN [F1 EXCEPT !.status = Failure]
     ELSE [F1 EXCEPT !.status = NetworkError]

\* The callback of setTimeout(.., 3000).
formClear(F) == [F EXCEPT !.status = Empty, !.timers = @ - 1]

FormInit ==
  /\ formStatus = Empty
  /\ formFilled = FALSE
  /\ requests = {}
  /\ issued = 0
  /\ clearTimers = 0
  /\ formEv = [type |-> "init", r |-> 0]
  /\ formOutcomes = {}

UnchangedByForm == UNCHANGED <<loopVars, roadVars, heroVars, skillVars, layerVars, bootVars, scrollVars>>

\* The user types into the fields.
FormInput ==
  /\ ~formFilled
  /\ formFilled' = TRUE
  /\ formEv' = [type |-> "input", r |-> 0]
  /\ UNCHANGED <<formStatus, requests, issued, clearTimers, formOutcomes>>
  /\ UnchangedByForm

\* The form is submitted.
FormSubmit ==
  /\ issued < MaxSubmits
  /\ SetForm(formSubmit(FormState))
  /\ formEv' = [type |-> "submit", r |-> issued + 1]
  /\ UNCHANGED formOutcomes
  /\ UnchangedByForm

\* The fetch r ends.
FormSettled(r, outcome) ==
  /\ r \in requests
  /\ SetForm(formSettled(FormState, r, outcome))
  /\ formEv' = [type |-> outcome, r |-> r]
  /\ formOutcomes' = formOutcomes \cup {outcome}
  /\ UnchangedByForm

\* An auto-clear timer fires.
FormClear ==
  /\ clearTimers > 0
  /\ SetForm(formClear(FormState))
  /\ formEv' = [type |-> "clear", r |-> 0]
  /\ UNCHANGED formOutcomes
  /\ UnchangedByForm

FormNext ==
  \/ FormInput
  \/ FormSubmit
  \/ \E r \in 1..MaxSubmits, outcome \in Outcomes : FormSettled(r, outcome)
  \/ FormClear


\* -------------------------------------------------------- particle positions

\* Canvas widths and heights, in px.
Sizes == {k * Step : k \in 1..MaxSize}
Boxes == [w : Sizes, h : Sizes]

\* Math.random() * n on the grid: the multiples of Step in [0, n).
Random(n) == {k * Step : k \in 0..((n - 1) \div Step)}

\* A particle placed at random in a canvas of size dim.
Points(dim) == [x : Random(dim.w), y : Random(dim.h)]

\* script.js:626, 654: how far above the canvas a Dust and a CarParticle rise
\* before they are reset.
DustMargin == 10
CarMargin == 60

\* script.js:865, 891, 892: the least span of a wheel's start position, and
\* the bounce range's reach beyond the left/top and short of the right/bottom.
WheelStart == 100
WheelOut == 80
WheelEdge == 20

\* The sizes of the projects section: narrower and wider than WheelStart.
SectionSizes == {WheelStart - 2 * Step, WheelStart + 2 * Step}
Rects == [w : SectionSizes, h : SectionSizes]

\* The update of one sparkle in drawSparkles (script.js:409-413).
sparkleUpdate(p, dim) ==
  LET y1 == p.y + Step
  IN IF y1 > dim.h THEN {[x |-> x, y |-> 0] : x \in Random(dim.w)}
     ELSE {[p EXCEPT !.y = y1]}

\* Dust.update
dustUpdate(p, dim) ==
  LET y1 == p.y - Step
  IN IF y1 < -DustMargin THEN Points(dim) ELSE {[p EXCEPT !.y = y1]}

\* CarParticle.update: sin(floatX) * 0.3 drifts the car left or right.
carUpdate(p, dim) ==
  LET y1 == p.y - Step
  IN IF y1 < -CarMargin THEN Points(dim)
     ELSE {[x |-> p.x + dx, y |-> y1] : dx \in {-Step, 0, Step}}

\* A wheel moves WheelStep px per frame along each axis.
WheelStep == 2 * Step

\* Math.random() * n on the wheels' grid.
WheelRandom(n) == {k * WheelStep : k \in 0..((n - 1) \div WheelStep)}

\* The wheels initWheels can build for a section of size rect.
wheelStarts(rect) ==
  [x : WheelRandom(Max(WheelStart, rect.w - WheelStart)),
   y : WheelRandom(Max(WheelStart, rect.h - WheelStart)),
   speedX : {-WheelStep, WheelStep}, speedY : {-WheelStep, WheelStep}]

\* The update of one wheel in animateWheels.
wheelUpdate(p, rect) ==
  LET x1 == p.x + p.speedX
      y1 == p.y + p.speedY
      sx1 == IF x1 <= -WheelOut THEN -p.speedX ELSE p.speedX
      sx2 == IF x1 >= rect.w - WheelEdge THEN -sx1 ELSE sx1
      sy1 == IF y1 <= -WheelOut THEN -p.speedY ELSE p.speedY
      sy2 == IF y1 >= rect.h - WheelEdge THEN -sy1 ELSE sy1
  IN [x |-> x1, y |-> y1, speedX |-> sx2, speedY |-> sy2]

\* The layers after their modules' initialisation, for the layout sizes sb, pb
\* and r and the particles s, d and c; the wheels are built by the first
\* 'intersecting' report.
LayersInitAt(sb, s, pb, d, c, r) ==
  /\ sparkleBox = sb /\ sparkleDim = sb /\ sparkle = s /\ sparkleSizing = FALSE
  /\ particleBox = pb /\ particleDim = pb /\ dust = d /\ car = c
  /\ particleSizing = FALSE /\ particleReinit = FALSE
  /\ sectionRect = r /\ wheels = {} /\ wheelsReinit = FALSE
  /\ layerEv = "init"

SmallBox == [w |-> Step, h |-> Step]
Origin == [x |-> 0, y |-> 0]
NarrowRect == [w |-> WheelStart - 2 * Step, h |-> WheelStart - 2 * Step]

\* One layout of the page.
LayersInit == LayersInitAt(SmallBox, Origin, SmallBox, Origin, Origin, NarrowRect)

UnchangedByLayers == UNCHANGED <<loopVars, roadVars, heroVars, skillVars, formVars, bootVars, scrollVars>>

\* --- the sparkle field

\* The layout gives #sparkleCanvas the size b; the ResizeObserver (or the
\* window's resize listener) restarts the debounce of resizeCanvas.
SparkleLayout(b) ==
  /\ b # sparkleBox
  /\ sparkleBox' = b
  /\ sparkleSizing' = TRUE
  /\ layerEv' = "sparkleLayout"
  /\ UNCHANGED <<sparkleDim, sparkle, particleFieldVars, wheelFieldVars>>
  /\ UnchangedByLayers

\* The debounced resizeCanvas runs: only the canvas is resized.
SparkleResizeCanvas ==
  /\ sparkleSizing
  /\ sparkleSizing' = FALSE
  /\ sparkleDim' = sparkleBox
  /\ layerEv' = "resizeCanvas"
  /\ UNCHANGED <<sparkleBox, sparkle, particleFieldVars, wheelFieldVars>>
  /\ UnchangedByLayers

\* A frame of drawSparkles updates the sparkle.
SparkleMove ==
  /\ sparkle' \in sparkleUpdate(sparkle, sparkleDim)
  /\ layerEv' = "drawSparkles"
  /\ UNCHANGED <<sparkleBox, sparkleDim, sparkleSizing, particleFieldVars, wheelFieldVars>>
  /\ UnchangedByLayers

SparkleFieldNext ==
  \/ \E b \in Boxes : SparkleLayout(b)
  \/ SparkleResizeCanvas
  \/ SparkleMove

\* --- the contact particles

\* The layout gives #particlesCanvas the size b, with a resize of the window
\* (win) or without one; without a change of the canvas only the window's
\* listener is notified.
ParticleLayout(b, win) ==
  /\ b # particleBox \/ win
  /\ particleBox' = b
  /\ particleSizing' = (particleSizing \/ b # particleBox)
  /\ particleReinit' = (particleReinit \/ win)
  /\ layerEv' = "particleLayout"
  /\ UNCHANGED <<particleDim, dust, car, sparkleFieldVars, wheelFieldVars>>
  /\ UnchangedByLayers

\* The debounced setSize runs.
ParticleSetSize ==
  /\ particleSizing
  /\ particleSizing' = FALSE
  /\ particleDim' = particleBox
  /\ layerEv' = "setSize"
  /\ UNCHANGED <<particleBox, dust, car, particleReinit, sparkleFieldVars, wheelFieldVars>>
  /\ UnchangedByLayers

\* The debounced () => { setSize(); init(); } runs.
ParticleReinit ==
  /\ particleReinit
  /\ particleReinit' = FALSE
  /\ particleDim' = particleBox
  /\ dust' \in Points(particleBox)
  /\ car' \in Points(particleBox)
  /\ layerEv' = "particlesResize"
  /\ UNCHANGED <<particleBox, particleSizing, sparkleFieldVars, wheelFieldVars>>
  /\ UnchangedByLayers

\* A frame of loop updates the particles.
ParticleMove ==
  /\ dust' \in dustUpdate(dust, particleDim)
  /\ car' \in carUpdate(car, particleDim)
  /\ layerEv' = "loop"
  /\ UNCHANGED <<particleBox, particleDim, particleSizing, particleReinit,
                 sparkleFieldVars, wheelFieldVars>>
  /\ UnchangedByLayers

ParticleFieldNext ==
  \/ \E b \in Boxes, win \in BOOLEAN : ParticleLayout(b, win)
  \/ ParticleSetSize
  \/ ParticleReinit
  \/ ParticleMove

\* --- the floating wheels

\* The window is resized and the layout gives the projects section the size r.
SectionLayout(r) ==
  /\ sectionRect' = r
  /\ wheelsReinit' = TRUE
  /\ layerEv' = "sectionLayout"
  /\ UNCHANGED <<wheels, sparkleFieldVars, particleFieldVars>>
  /\ UnchangedByLayers

\* initWheels(); animateWheels(): of the observer's 'intersecting' branch
\* (ev = "wheelsShown") and of the debounced resize handler.
WheelsBuilt(ev) ==
  /\ \E p \in wheelStarts(sectionRect) : wheels' = {wheelUpdate(p, sectionRect)}
  /\ layerEv' = ev
  /\ UNCHANGED <<sectionRect, sparkleFieldVars, particleFieldVars>>
  /\ UnchangedByLayers

WheelsShown == WheelsBuilt("wheelsShown") /\ UNCHANGED wheelsReinit

WheelsReinit ==
  /\ wheelsReinit
  /\ wheelsReinit' = FALSE
  /\ WheelsBuilt("wheelsResize")

\* A frame of animateWheels updates the wheel.
WheelsMove ==
  /\ wheels # {}
  /\ wheels' = {wheelUpdate(p, sectionRect) : p \in wheels}
  /\ layerEv' = "animateWheels"
  /\ UNCHANGED <<sectionRect, wheelsReinit, sparkleFieldVars, particleFieldVars>>
  /\ UnchangedByLayers

WheelFieldNext ==
  \/ \E r \in Rects : SectionLayout(r)
  \/ WheelsShown
  \/ WheelsReinit
  \/ WheelsMove


\* ------------------------------------------------------------ the bootstrap

\* The elements the script looks up, by selector.
Elements ==
  {"#heroVideo", "#gotStuckText", "#fixItText", ".hero-arrow",
   "#road", "#roadCar", ".pin", "#descriptionBox", "#descText",
   "#skills", ".skill", "#skillDescription", ".bracket.left", ".bracket.right",
   "#sparkleCanvas", "section", ".hero", ".work-roadmap", "#particlesCanvas",
   ".project-slider", ".projects-section", ".contact-form", ".form-status"}

\* The capabilities the script depends on: the two observer constructors,
\* canvas.getContext, and a getContext('2d') that returns a context.
Caps == {"IntersectionObserver", "ResizeObserver", "getContext", "2d"}

\* The initializers, in the order of the DOMContentLoaded listener.
Modules ==
  <<"initHeroModule", "initRoadmapModule", "initSkillsModule", "initUpArrows",
    "initParticlesModule", "initProjectSliders", "initProjectsLayer">>

\* The sets of at most MaxAbsent elements.
AbsentSets == {{f[i] : i \in 1..n} : f \in [1..MaxAbsent -> Elements], n \in 0..MaxAbsent}

\* Every element of E is in the document.
Has(E) == E \cap absent = {}

\* The bootstrap as one value; halted when an exception left an initializer.
BootState == [done |-> bootDone, wired |-> wired, errors |-> errors, halted |-> FALSE]

\* An initializer returns, having installed the listeners L.
Returns(B, module, L) == [B EXCEPT !.done = @ \cup {module}, !.wired = @ \cup L]

\* An initializer throws after it installed the listeners L.
Throws(B, module, L) ==
  [B EXCEPT !.wired = @ \cup L, !.errors = @ \cup {module}, !.halted = TRUE]

initHeroModule(B) ==
  IF ~Has({"#heroVideo", "#gotStuckText", "#fixItText"})
  THEN Returns(B, "initHeroModule", {})
  ELSE Returns(B, "initHeroModule",
               (IF reduceMotion THEN {} ELSE {"timeupdate"})
               \cup (IF Has({".hero-arrow"}) THEN {"heroArrow"} ELSE {}))

initRoadmapModule(B) ==
  IF ~Has({"#road", "#roadCar", ".pin", "#descriptionBox", "#descText"})
  THEN Returns(B, "initRoadmapModule", {})
  ELSE Returns(B, "initRoadmapModule", {"pinClick", "roadResize", "roadPagehide"})

\* Without the canvas or without canvas.getContext the items only get their
\* tabindex; the observers are constructed before the click listeners are
\* installed.
initSkillsModule(B) ==
  IF ~Has({"#skills"}) THEN Returns(B, "initSkillsModule", {})
  ELSE IF ~Has({"#sparkleCanvas"}) \/ "getContext" \notin caps
  THEN Returns(B, "initSkillsModule", {"skillTabindex"})
  ELSE IF "IntersectionObserver" \notin caps
  THEN Throws(B, "initSkillsModule", {"sparkleResize"})
  ELSE Returns(B, "initSkillsModule",
               {"sparkleResize", "sparkleObserver", "revealObserver",
                "skillTabindex", "skillClick", "skillsPagehide"})

initUpArrows(B) ==
  IF ~Has({"section", ".hero", ".work-roadmap"}) THEN Returns(B, "initUpArrows", {})
  ELSE Returns(B, "initUpArrows", {"upArrow"})

\* loop() is called during initialisation and reads ctx unless reduceMotion.
initParticlesModule(B) ==
  IF ~Has({"#particlesCanvas"}) \/ "getContext" \notin caps
  THEN Returns(B, "initParticlesModule", {})
  ELSE IF ~reduceMotion /\ "2d" \notin caps
  THEN Throws(B, "initParticlesModule", {"particlesSize"})
  ELSE IF "IntersectionObserver" \notin caps
  THEN Throws(B, "initParticlesModule", {"particlesSize"})
  ELSE Returns(B, "initParticlesModule",
               {"particlesSize", "particlesObserver", "particlesResize", "particlesPagehide"})

initProjectSliders(B) ==
  IF ~Has({".project-slider"}) THEN Returns(B, "initProjectSliders", {})
  ELSE Returns(B, "initProjectSliders", {"slider"})

initProjectsLayer(B) ==
  IF ~Has({".projects-section"}) THEN Returns(B, "initProjectsLayer", {})
  ELSE IF "IntersectionObserver" \notin caps
  THEN Throws(B, "initProjectsLayer", {"glow"})
  ELSE Returns(B, "initProjectsLayer", {"glow", "wheelsObserver", "wheelsResize"})

\* One initializer, skipped once an exception has left the listener.
RunModule(B, module) ==
  IF B.halted THEN B
  ELSE IF module = "initHeroModule" THEN initHeroModule(B)
  ELSE IF module = "initRoadmapModule" THEN initRoadmapModule(B)
  ELSE IF module = "initSkillsModule" THEN initSkillsModule(B)
  ELSE IF module = "initUpArrows" THEN initUpArrows(B)
  ELSE IF module = "initParticlesModule" THEN initParticlesModule(B)
  ELSE IF module = "initProjectSliders" THEN initProjectSliders(B)
  ELSE initProjectsLayer(B)

RECURSIVE RunModules(_, _)
RunModules(B, n) == IF n = 0 THEN B ELSE RunModule(RunModules(B, n - 1), Modules[n])

\* The two teardown listeners registered at the end of the bootstrap.
TeardownHooks == {"pagehide", "beforeunload"}

\* The DOMContentLoaded listener: the initializers in order, then the
\* teardown listeners.
bootstrap(B) ==
  LET B1 == RunModules(B, Len(Modules))
  IN IF B1.halted THEN B1 ELSE [B1 EXCEPT !.wired = @ \cup TeardownHooks]

\* What the script installs while it is evaluated: the form's submit
\* listener (script.js:734) and the scroll lock (script.js:939-956).
ScriptListeners ==
  (IF Has({".contact-form", ".form-status"}) THEN {"submit"} ELSE {})
  \cup {"wheel", "keydown", "scroll", "touchmove"}

\* The script has been evaluated in a document without the elements a, in a
\* browser with the capabilities c; DOMContentLoaded is still to come.
BootInitAt(a, c) ==
  /\ absent = a
  /\ caps = c
  /\ booted = FALSE
  /\ bootDone = {}
  /\ wired = ScriptListeners
  /\ errors = {}

\* The complete page in a browser that has every capability, after the
\* bootstrap.
PageInit ==
  /\ absent = {}
  /\ caps = Caps
  /\ booted = TRUE
  /\ bootDone = bootstrap([done |-> {}, wired |-> ScriptListeners, errors |-> {},
                           halted |-> FALSE]).done
  /\ wired = bootstrap([done |-> {}, wired |-> ScriptListeners, errors |-> {},
                        halted |-> FALSE]).wired
  /\ errors = {}

UnchangedByBoot == UNCHANGED <<loopVars, roadVars, heroVars, formVars, layerVars, scrollVars>>

\* DOMContentLoaded is dispatched.
DOMContentLoaded ==
  LET B == bootstrap(BootState)
  IN /\ ~booted
     /\ booted' = TRUE
     /\ bootDone' = B.done
     /\ wired' = B.wired
     /\ errors' = B.errors
     /\ UNCHANGED <<absent, caps, skillVars>>
     /\ UnchangedByBoot

\* A skill item is clicked in the booted page.
BootSkillClick(s) ==
  LET K == skillClick(SkillState, s)
  IN /\ booted
     /\ "skillClick" \in wired
     /\ Has({".skill"})
     /\ SetSkills(K)
     /\ skillEv' = [type |-> "click", n |-> 0]
     /\ errors' = (IF K.thrown THEN errors \cup {"typeChar"} ELSE errors)
     /\ UNCHANGED <<revealed, absent, caps, booted, bootDone, wired>>
     /\ UnchangedByBoot

\* The sparkle observer delivers an entry in the booted page: drawSparkles
\* reads ctx in its first statement (script.js:394-398).
BootSparkleReport(b) ==
  /\ booted
  /\ "sparkleObserver" \in wired
  /\ errors' = (IF b /\ ~reduceMotion /\ "2d" \notin caps
                THEN errors \cup {"drawSparkles"} ELSE errors)
  /\ UNCHANGED <<absent, caps, booted, bootDone, wired, skillVars>>
  /\ UnchangedByBoot

\* A typeChar timer of the booted page fires.
BootTypeChar == booted /\ TypeChar

BootNext ==
  \/ DOMContentLoaded
  \/ \E s \in Skills : BootSkillClick(s)
  \/ \E b \in BOOLEAN : BootSparkleReport(b)
  \/ BootTypeChar


\* ------------------------------------------------------------ page scrolling

\* The sections of the page from the top: the hero, the roadmap, and two of
\* the sections the roadmap's links name.
PageSections == <<".hero", "#workRoadmap", "#skills", "#contact">>

\* The scroll offset that brings a section to the top of the viewport.
OffsetOf(name) ==
  (CHOOSE n \in 1..Len(PageSections) : PageSections[n] = name) * SectionHeight
    - SectionHeight

\* No smooth scroll is going on.
NoScroll == -1

\* The inline overflow values of the markup.
Overflows == {"", "hidden"}

ScrollState ==
  [y |-> scrollY, smooth |-> smooth, queued |-> scrollQueued,
   html |-> htmlOverflow, body |-> bodyOverflow, restores |-> restores]

SetScroll(V) ==
  /\ scrollY' = V.y
  /\ smooth' = V.smooth
  /\ scrollQueued' = V.queued
  /\ htmlOverflow' = V.html
  /\ bodyOverflow' = V.body
  /\ restores' = V.restores
  /\ UNCHANGED overflowAtLoad

\* target.scrollIntoView({ behavior: 'smooth' }): a smooth scroll to the
\* target's offset starts, replacing the one going on.
scrollIntoView(V, name) ==
  IF V.y = OffsetOf(name) THEN [V EXCEPT !.smooth = NoScroll]
  ELSE [V EXCEPT !.smooth = OffsetOf(name)]

\* window.scrollTo(0, 0): the smooth scroll going on is aborted and the page
\* jumps to the origin; a scroll event is queued when the offset changed.
scrollToOrigin(V) ==
  [V EXCEPT !.smooth = NoScroll, !.y = 0, !.queued = (@ \/ V.y # 0)]

\* The scroll listener of script.js:955.
scrollListener(V) == scrollToOrigin(V)

\* The click listener of the link of a description (script.js:294-298).
linkClick(V, name) == scrollIntoView(V, name)

\* The click listener of the up arrow of a section (script.js:559-569).
upArrowClick(V, section) ==
  IF section = "#workRoadmap" THEN scrollIntoView(V, ".hero")
  ELSE scrollIntoView(V, "#workRoadmap")

\* Where the up arrow of a section leads.
UpArrowTarget(section) == IF section = "#workRoadmap" THEN ".hero" ELSE "#workRoadmap"

\* The click listener of the hero arrow (script.js:154-178).
heroArrowClick(V) ==
  LET V1 == [V EXCEPT !.html = "", !.body = "",
                      !.restores = Append(@, [html |-> V.html, body |-> V.body])]
  IN scrollIntoView(V1, "#workRoadmap")

\* The oldest restore timer fires.
restoreOverflow(V) ==
  [V EXCEPT !.html = Head(V.restores).html, !.body = Head(V.restores).body,
            !.restores = Tail(@)]

\* One step of the smooth scroll: the offset moves towards the target and a
\* scroll event is queued.
smoothStep(V) ==
  LET y1 == IF V.smooth > V.y THEN V.y + 1 ELSE V.y - 1
  IN [V EXCEPT !.y = y1, !.queued = TRUE,
               !.smooth = IF y1 = V.smooth THEN NoScroll ELSE @]

\* The page at the origin, with the inline overflow values h and b.
ScrollInitAt(h, b) ==
  /\ scrollY = 0
  /\ smooth = NoScroll
  /\ scrollQueued = FALSE
  /\ htmlOverflow = h
  /\ bodyOverflow = b
  /\ restores = <<>>
  /\ navTarget = NoScroll
  /\ scrollEv = "init"
  /\ overflowAtLoad = [html |-> h, body |-> b]

UnchangedByScroll == UNCHANGED <<loopVars, roadVars, heroVars, skillVars, formVars,
                                 layerVars, bootVars>>

\* The link of a description is activated.
LinkClick(name) ==
  /\ SetScroll(linkClick(ScrollState, name))
  /\ navTarget' = OffsetOf(name)
  /\ scrollEv' = "link"
  /\ UnchangedByScroll

\* The up arrow of a section is activated.
UpArrowClick(section) ==
  /\ SetScroll(upArrowClick(ScrollState, section))
  /\ navTarget' = OffsetOf(UpArrowTarget(section))
  /\ scrollEv' = "upArrow"
  /\ UnchangedByScroll

\* The hero arrow is activated.
HeroArrowClick ==
  /\ Len(restores) < MaxRestores
  /\ SetScroll(heroArrowClick(ScrollState))
  /\ navTarget' = OffsetOf("#workRoadmap")
  /\ scrollEv' = "heroArrow"
  /\ UnchangedByScroll

\* A restore timer of the hero arrow fires.
RestoreOverflow ==
  /\ restores # <<>>
  /\ SetScroll(restoreOverflow(ScrollState))
  /\ scrollEv' = "restore"
  /\ UNCHANGED navTarget
  /\ UnchangedByScroll

\* The browser advances the smooth scroll.
SmoothStep ==
  /\ smooth # NoScroll
  /\ SetScroll(smoothStep(ScrollState))
  /\ scrollEv' = "step"
  /\ UNCHANGED navTarget
  /\ UnchangedByScroll

\* The queued scroll event is dispatched to the scroll listener.
ScrollEvent ==
  /\ scrollQueued
  /\ SetScroll(scrollListener([ScrollState EXCEPT !.queued = FALSE]))
  /\ scrollEv' = "scroll"
  /\ UNCHANGED navTarget
  /\ UnchangedByScroll

\* A wheel, key or touch gesture that would scroll: its listener calls
\* preventDefault and nothing scrolls (script.js:940-956).
Gestures == {"wheel", "keydown", "touchmove"}

SuppressedGesture(g) ==
  /\ scrollEv' = g
  /\ UNCHANGED <<scrollY, smooth, scrollQueued, htmlOverflow, bodyOverflow, restores,
                 navTarget, overflowAtLoad>>
  /\ UnchangedByScroll

ScrollNext ==
  \/ \E name \in {"#skills", "#contact"} : LinkClick(name)
  \/ \E section \in {PageSections[n] : n \in 1..Len(PageSections)} : UpArrowClick(section)
  \/ HeroArrowClick
  \/ RestoreOverflow
  \/ SmoothStep
  \/ ScrollEvent
  \/ \E g \in Gestures : SuppressedGesture(g)


\* ------------------------------------------------------- the loops' actions

Report(b) == IF b THEN "in" ELSE "out"

UnchangedSparkle == UNCHANGED <<sparkleActive, sparkleRafId, sparkleCanvas>>
UnchangedParticles == UNCHANGED <<running, rafId, particleCanvas>>
UnchangedWheels == UNCHANGED <<wheelsRafId, wheelsBuilt>>
UnchangedRaf == UNCHANGED <<nextRaf, frames, _rafIds>>

\* Handles are handed out up to MaxRaf.
WithinRaf(R) == R.next <= MaxRaf + 1

\* The state after the bootstrap (script.js:61-73): initSkillsModule sized the
\* sparkle canvas, initParticlesModule ran init() and its first loop() call,
\* initProjectsLayer built nothing yet; no event was delivered.
LoopsInit ==
  /\ sparkleActive = FALSE
  /\ sparkleRafId = Null
  /\ sparkleCanvas = "clear"
  /\ LET o == loop([running |-> TRUE, rafId |-> Null, canvas |-> "clear"],
                   [next |-> 1, frames |-> {}, ids |-> <<>>])
     IN /\ running = o.p.running
        /\ rafId = o.p.rafId
        /\ particleCanvas = o.p.canvas
        /\ nextRaf = o.r.next
        /\ frames = o.r.frames
        /\ _rafIds = o.r.ids
  /\ wheelsRafId = Null
  /\ wheelsBuilt = FALSE
  /\ debounced = {}
  /\ lastReport = [l \in Loops |-> "none"]
  /\ tornDown = FALSE

\* The sparkle observer delivers one entry.
SparkleIntersect(b) ==
  LET o == sparkleObserver(SparkleState, RafState, b)
  IN /\ WithinRaf(o.r)
     /\ SetSparkle(o.s)
     /\ SetRaf(o.r)
     /\ lastReport' = [lastReport EXCEPT !["sparkle"] = Report(b)]
     /\ UnchangedParticles /\ UnchangedWheels /\ UnchangedEnv /\ UnchangedRoad /\ UnchangedHero
     /\ UNCHANGED <<debounced, tornDown>>

\* The particles observer delivers one entry.
ParticlesIntersect(b) ==
  LET o == particlesObserver(ParticleState, RafState, b)
  IN /\ WithinRaf(o.r)
     /\ SetParticles(o.p)
     /\ SetRaf(o.r)
     /\ lastReport' = [lastReport EXCEPT !["particles"] = Report(b)]
     /\ UnchangedSparkle /\ UnchangedWheels /\ UnchangedEnv /\ UnchangedRoad /\ UnchangedHero
     /\ UNCHANGED <<debounced, tornDown>>

\* The wheels observer delivers one entry.
WheelsIntersect(b) ==
  LET o == wheelsObserver(WheelState, RafState, b)
  IN /\ WithinRaf(o.r)
     /\ SetWheels(o.w)
     /\ SetRaf(o.r)
     /\ lastReport' = [lastReport EXCEPT !["wheels"] = Report(b)]
     /\ UnchangedSparkle /\ UnchangedParticles /\ UnchangedEnv /\ UnchangedRoad /\ UnchangedHero
     /\ UNCHANGED <<debounced, tornDown>>

\* The browser runs one outstanding frame request: the request leaves the
\* list, then its callback runs.
SparkleFrame ==
  \E f \in FramesOf("sparkle") :
    LET o == drawSparkles(SparkleState, [RafState EXCEPT !.frames = @ \ {f}])
    IN /\ WithinRaf(o.r)
       /\ SetSparkle(o.s)
       /\ SetRaf(o.r)
       /\ UnchangedParticles /\ UnchangedWheels /\ UnchangedEnv /\ UnchangedRoad /\ UnchangedHero
       /\ UNCHANGED <<debounced, lastReport, tornDown>>

ParticlesFrame ==
  \E f \in FramesOf("particles") :
    LET o == loop(ParticleState, [RafState EXCEPT !.frames = @ \ {f}])
    IN /\ WithinRaf(o.r)
       /\ SetParticles(o.p)
       /\ SetRaf(o.r)
       /\ UnchangedSparkle /\ UnchangedWheels /\ UnchangedEnv /\ UnchangedRoad /\ UnchangedHero
       /\ UNCHANGED <<debounced, lastReport, tornDown>>

WheelsFrame ==
  \E f \in FramesOf("wheels") :
    LET o == animateWheels(WheelState, [RafState EXCEPT !.frames = @ \ {f}])
    IN /\ WithinRaf(o.r)
       /\ SetWheels(o.w)
       /\ SetRaf(o.r)
       /\ UnchangedSparkle /\ UnchangedParticles /\ UnchangedEnv /\ UnchangedRoad /\ UnchangedHero
       /\ UNCHANGED <<debounced, lastReport, tornDown>>

\* The debounced resize handlers armed by a window resize event
\* (script.js:706, 924).
WindowHandlers == {"particlesInit", "wheels"}

\* A window resize event: every debounce wrapper restarts its timer.
WindowResize ==
  /\ debounced' = debounced \cup WindowHandlers
  /\ UnchangedSparkle /\ UnchangedParticles /\ UnchangedWheels /\ UnchangedRaf
  /\ UnchangedEnv /\ UnchangedRoad /\ UnchangedHero
  /\ UNCHANGED <<lastReport, tornDown>>

\* The trigger of one canvas sizer: a ResizeObserver report for the canvas
\* (script.js:373, 599) or, without ResizeObserver, a window resize event
\* (script.js:376, 602); either way the debounce wrapper restarts its timer.
CanvasResize(c) ==
  /\ debounced' = debounced \cup {c}
  /\ UnchangedSparkle /\ UnchangedParticles /\ UnchangedWheels /\ UnchangedRaf
  /\ UnchangedEnv /\ UnchangedRoad /\ UnchangedHero
  /\ UNCHANGED <<lastReport, tornDown>>

\* debounce(resizeCanvas) fires.
SparkleResized ==
  /\ "sparkleSize" \in debounced
  /\ debounced' = debounced \ {"sparkleSize"}
  /\ SetSparkle(resizeCanvas(SparkleState))
  /\ UnchangedParticles /\ UnchangedWheels /\ UnchangedRaf /\ UnchangedEnv /\ UnchangedRoad /\ UnchangedHero
  /\ UNCHANGED <<lastReport, tornDown>>

\* debounce(setSize) fires.
ParticlesSized ==
  /\ "particlesSize" \in debounced
  /\ debounced' = debounced \ {"particlesSize"}
  /\ SetParticles(setSize(ParticleState))
  /\ UnchangedSparkle /\ UnchangedWheels /\ UnchangedRaf /\ UnchangedEnv /\ UnchangedRoad /\ UnchangedHero
  /\ UNCHANGED <<lastReport, tornDown>>

\* debounce(() => { setSize(); init(); }) fires: the particle set is rebuilt.
ParticlesResized ==
  /\ "particlesInit" \in debounced
  /\ debounced' = debounced \ {"particlesInit"}
  /\ SetParticles(setSize(ParticleState))
  /\ UnchangedSparkle /\ UnchangedWheels /\ UnchangedRaf /\ UnchangedEnv /\ UnchangedRoad /\ UnchangedHero
  /\ UNCHANGED <<lastReport, tornDown>>

\* The wheels' debounced resize handler fires.
WheelsResized ==
  /\ "wheels" \in debounced
  /\ LET o == wheelsResize(WheelState, RafState)
     IN /\ WithinRaf(o.r)
        /\ SetWheels(o.w)
        /\ SetRaf(o.r)
  /\ debounced' = debounced \ {"wheels"}
  /\ UnchangedSparkle /\ UnchangedParticles /\ UnchangedEnv /\ UnchangedRoad /\ UnchangedHero
  /\ UNCHANGED <<lastReport, tornDown>>

\* pagehide: the listeners run in the order they were added, the particles'
\* (script.js:707) before the bootstrap's stopRafs (script.js:71).
PageHide ==
  /\ running' = FALSE
  /\ SetRaf(stopRafs(RafState))
  /\ tornDown' = TRUE
  /\ UNCHANGED <<rafId, particleCanvas>>
  /\ UnchangedSparkle /\ UnchangedWheels /\ UnchangedEnv /\ UnchangedRoad /\ UnchangedHero
  /\ UNCHANGED <<debounced, lastReport>>

\* beforeunload: stopRafs only (script.js:72).
BeforeUnload ==
  /\ SetRaf(stopRafs(RafState))
  /\ tornDown' = TRUE
  /\ UnchangedSparkle /\ UnchangedParticles /\ UnchangedWheels /\ UnchangedEnv /\ UnchangedRoad /\ UnchangedHero
  /\ UNCHANGED <<debounced, lastReport>>

LoopsNext ==
  \/ \E b \in BOOLEAN : SparkleIntersect(b)
  \/ \E b \in BOOLEAN : ParticlesIntersect(b)
  \/ \E b \in BOOLEAN : WheelsIntersect(b)
  \/ SparkleFrame
  \/ ParticlesFrame
  \/ WheelsFrame
  \/ WindowResize
  \/ \E c \in {"sparkleSize", "particlesSize"} : CanvasResize(c)
  \/ SparkleResized
  \/ ParticlesSized
  \/ ParticlesResized
  \/ WheelsResized
  \/ PageHide
  \/ BeforeUnload

\* The page after DOMContentLoaded, in a viewport that gives the road its
\* first width.
Init ==
  /\ reduceMotion \in BOOLEAN
  /\ LoopsInit
  /\ RoadInitAt(12)
  /\ HeroInit
  /\ PageInit
  /\ SkillsInit
  /\ FormInit
  /\ LayersInit
  /\ ScrollInitAt("", "")

SpecLoops == Init /\ [][LoopsNext]_vars

\* The roadmap in any of the viewports (the roadmap does not read
\* reduceMotion).
RoadInit ==
  /\ reduceMotion = FALSE
  /\ LoopsInit
  /\ \E w \in RoadWidths : RoadInitAt(w)
  /\ HeroInit
  /\ PageInit
  /\ SkillsInit
  /\ FormInit
  /\ LayersInit
  /\ ScrollInitAt("", "")

SpecRoadmap == RoadInit /\ [][RoadNext]_vars

\* The roadmap with the browser delivering what is due: a transition that
\* runs ends and dispatches transitionend, and pending timers, intervals and
\* frames fire. Nothing obliges the user to select or the window to resize.
SpecRoadmapFair ==
  /\ RoadInit
  /\ [][RoadNext]_vars
  /\ WF_vars(TransitionEnd)
  /\ WF_vars(RoadResized)
  /\ WF_vars(RestoreTransition)
  /\ WF_vars(TypeTick)
  /\ WF_vars(ShowTimer)

SpecHero == Init /\ [][HeroNext]_vars

SpecSkills == Init /\ [][SkillsNext]_vars

\* The position of a sparkle, in a canvas of any size.
SparkleFieldInit ==
  /\ reduceMotion = FALSE
  /\ LoopsInit /\ RoadInitAt(12) /\ HeroInit /\ PageInit /\ SkillsInit /\ FormInit
  /\ ScrollInitAt("", "")
  /\ \E sb \in Boxes : \E s \in Points(sb) :
       LayersInitAt(sb, s, SmallBox, Origin, Origin, NarrowRect)

SpecSparkleField == SparkleFieldInit /\ [][SparkleFieldNext]_vars

\* The positions of a dust and a car particle, in a canvas of any size.
ParticleFieldInit ==
  /\ reduceMotion = FALSE
  /\ LoopsInit /\ RoadInitAt(12) /\ HeroInit /\ PageInit /\ SkillsInit /\ FormInit
  /\ ScrollInitAt("", "")
  /\ \E pb \in Boxes : \E d \in Points(pb), c \in Points(pb) :
       LayersInitAt(SmallBox, Origin, pb, d, c, NarrowRect)

SpecParticleField == ParticleFieldInit /\ [][ParticleFieldNext]_vars

\* The position of a wheel, in a section of any size.
WheelFieldInit ==
  /\ reduceMotion = FALSE
  /\ LoopsInit /\ RoadInitAt(12) /\ HeroInit /\ PageInit /\ SkillsInit /\ FormInit
  /\ ScrollInitAt("", "")
  /\ \E r \in Rects : LayersInitAt(SmallBox, Origin, SmallBox, Origin, Origin, r)

SpecWheelField == WheelFieldInit /\ [][WheelFieldNext]_vars

\* The script in a document that lacks up to MaxAbsent of the expected
\* elements, in a browser that lacks any of the capabilities.
BootInit ==
  /\ reduceMotion \in BOOLEAN
  /\ LoopsInit /\ RoadInitAt(12) /\ HeroInit
  /\ \E a \in AbsentSets, c \in SUBSET Caps : BootInitAt(a, c)
  /\ SkillsInit /\ FormInit /\ LayersInit /\ ScrollInitAt("", "")

SpecBoot == BootInit /\ [][BootNext]_vars

\* Scrolling, for any inline overflow of the markup.
ScrollInit ==
  /\ reduceMotion = FALSE
  /\ LoopsInit /\ RoadInitAt(12) /\ HeroInit /\ PageInit /\ SkillsInit /\ FormInit
  /\ LayersInit
  /\ \E h \in Overflows, b \in Overflows : ScrollInitAt(h, b)

SpecScroll == ScrollInit /\ [][ScrollNext]_vars

\* The form, with every pending timer firing and every fetch ending.
SpecForm ==
  /\ Init
  /\ [][FormNext]_vars
  /\ WF_vars(FormClear)
  /\ \A r \in 1..MaxSubmits : WF_vars(\E outcome \in Outcomes : FormSettled(r, outcome))

\* ------------------------------------------------------ claims on the loops

\* C1: at most one drawSparkles frame request is outstanding at any time,
\* and it is the one sparkleRafId names: a new one is requested only by the
\* callback of the previous one or by the observer when none is outstanding.
C1_SparkleOneFrame ==
  /\ Cardinality(FramesOf("sparkle")) <= 1
  /\ \A f \in FramesOf("sparkle") : f.id = sparkleRafId

\* C1 witness: the sparkle loop has one request outstanding after frames
\* fired, a teardown cancelled one, and the observer restarted the loop.
C1_Witness ==
  /\ Cardinality(FramesOf("sparkle")) = 1
  /\ tornDown
  /\ sparkleRafId > 2
  /\ lastReport["sparkle"] = "in"

\* C2: at most one loop (contact particles) frame request is outstanding at
\* any time.
C2_ParticlesOneFrame == Cardinality(FramesOf("particles")) <= 1

\* C3: at most one animateWheels frame request is outstanding at any time and
\* wheelsRafId identifies it.
C3_WheelsOneFrame ==
  /\ Cardinality(FramesOf("wheels")) <= 1
  /\ \A f \in FramesOf("wheels") : f.id = wheelsRafId

\* The loop whose update/draw ran in this step and requested the next frame:
\* the request it added carries the handle nextRaf.
Requested(l) == \E f \in frames' : f.id = nextRaf /\ f.cb = l

\* C4: a loop updates/draws and requests another frame only while the most
\* recent intersection report for its target is 'intersecting' and
\* reduced-motion is off.
C4_FramesOnlyWhileVisible ==
  [][\A l \in Loops : Requested(l) => (lastReport'[l] = "in" /\ ~reduceMotion)]_vars

Canvas(l) == IF l = "sparkle" THEN sparkleCanvas ELSE particleCanvas

\* C5: for the two canvas loops, from a 'not intersecting' report until the
\* next 'intersecting' one no frame request of the loop is outstanding (so no
\* callback of it runs) and the canvas is clear.
C5_HiddenCanvasStopped ==
  \A l \in {"sparkle", "particles"} :
    lastReport[l] = "out" => (FramesOf(l) = {} /\ Canvas(l) = "clear")

\* C6: once pagehide or beforeunload was delivered no frame request of any
\* loop is outstanding (every one was cancelled and none is made afterwards),
\* so no frame callback runs after teardown.
C6_NoFrameAfterTeardown == tornDown => frames = {}

\* ----------------------------------------------------- claims on the roadmap

\* This step delivered a select of pin-that-is-active / of another pin.
SelectedActive == selects' = selects + 1 /\ lastSelect' = activePin
SelectedOther == selects' = selects + 1 /\ lastSelect' # activePin

\* C7: a select of the already-active waypoint changes nothing: the active
\* waypoint, the car's offset and transition, the moving guard, the
\* typewriter interval, the description text and link all stay as they are
\* and no typewriter session is started.
C7_SelectActiveNoOp ==
  [][SelectedActive =>
       UNCHANGED <<activePin, pinActive, isMoving, carX, carTransition, carAnimating,
                   onEnd, typingInterval, intervals, nextTimer, descText, descLink,
                   descShown, showTimers>>]_vars

\* C7 witness: two selects were delivered, the last one of pin 1, and no
\* typewriter session was started since the page's own: both were selects of
\* the active first pin.
C7_Witness ==
  /\ selects = 2
  /\ lastSelect = 1
  /\ activePin = 1
  /\ nextTimer = 2

\* C8: a select of another waypoint while the moving guard is set changes
\* nothing: not the active waypoint, the pins' active class, the description
\* or the typewriter session, just as it leaves the car's offset alone.
C8_SelectWhileMovingNoOp ==
  [][(SelectedOther /\ isMoving) =>
       UNCHANGED <<activePin, pinActive, carX, typingInterval, intervals, nextTimer,
                   descText, descLink>>]_vars

IsPrefix(a, b) == Len(a) <= Len(b) /\ a = SubSeq(b, 1, Len(a))

\* C9: at most one typing interval is active; and while only waypoints with
\* a description were selected, the description surface holds a prefix of
\* the active waypoint's text, followed by that waypoint's link only once the
\* text is complete.
C9_OneTypewriter ==
  /\ Cardinality(intervals) <= 1
  /\ allDescribed =>
       /\ IsPrefix(descText, DescriptionText(activePin))
       /\ descLink \in {Null, activePin}
       /\ descLink # Null => descText = DescriptionText(activePin)

\* C9 witness: after the page's own session two more were started by selects
\* of described waypoints, and the last one ran to its link.
C9_Witness ==
  /\ allDescribed
  /\ selects >= 2
  /\ nextTimer >= 4
  /\ descLink = activePin

\* -------------------------------------------------- claims on the sequencer

ScriptDone == onScript /\ Len(heroLog) = Len(Script)

LogIndexes(ev) == {i \in 1..Len(heroLog) : heroLog[i].ev = ev}

\* C10: a sequence starts only on a sample in [2, 6) taken while playing is
\* false and with no start since the last out-of-window reset; and the
\* samples 1.0, 2.0, 3.0, 6.0, 6.0, 1.0, delivered at least 100 ms apart,
\* start one sequence, at 2.0 (the second sample), and reset once at 6.0 (at
\* the fourth sample, not at the repeated fifth).
C10_HeroStarts ==
  /\ [][seqs' = seqs + 1 =>
          (InWindow(lastTimeChecked') /\ ~playing /\ startsSinceReset = 0)]_vars
  /\ [](ScriptDone =>
          /\ LogIndexes("start") = {2}
          /\ {i \in LogIndexes("reset") : heroLog[i].t = Sec(CAR_LEAVE)} = {4})

\* C10 witness: the six samples of the scenario were delivered, each at least
\* 100 ms after the one before.
C10_Witness == ScriptDone /\ seqs = 1 /\ ~playing

\* The most recent sample that was looked at lay outside [2, 6): it reset
\* the texts, and no sequence was started since.
AfterReset == lastTimeChecked # -Sec(1) /\ ~InWindow(lastTimeChecked)

\* C11: from a reset by a sample outside [2, 6) until the next sequence start
\* both texts stay hidden: opacity 0 and no fade animation on either.
C11_ResetStaysHidden == AfterReset => (gotStuck = Hidden /\ fixIt = Hidden)

\* ----------------------------------------------------- claims on the skills

\* The step delivers an entry of revealObserver.
RevealReported == skillEv'.type = "reveal"

\* C12 as stated: once a reveal has run, no later entry of revealObserver
\* changes a class of an item or of a bracket.
C12_RevealSingleShot ==
  [][(revealed /\ RevealReported) =>
       UNCHANGED <<skillShow, skillCenter, skillFade, leftOpen, rightOpen>>]_vars

\* C12: every 'intersecting' entry of revealObserver reveals again: with
\* motion allowed it takes 'show', 'center' and 'fade' off every item, closes
\* both brackets, empties the description and starts a staged run; with
\* reduced motion it shows every item and opens both brackets. A 'not
\* intersecting' entry changes nothing.
C12_RevealEveryEntry ==
  [][RevealReported =>
       IF skillEv'.n = 1 /\ ~reduceMotion
       THEN /\ skillShow' = {} /\ skillCenter' = {} /\ skillFade' = {}
            /\ ~leftOpen' /\ ~rightOpen'
            /\ skillDesc' = <<>>
            /\ reveals' = Append(reveals, 1)
       ELSE IF skillEv'.n = 1
       THEN /\ skillShow' = Skills /\ leftOpen' /\ rightOpen'
            /\ UNCHANGED <<skillCenter, skillFade, skillDesc, reveals>>
       ELSE UNCHANGED <<skillShow, skillCenter, skillFade, leftOpen, rightOpen,
                        skillDesc, reveals>>]_vars

\* An entry arrived while an earlier run had already shown an item: the item
\* is hidden again and a second run has started.
C12_Witness ==
  /\ skillEv = [type |-> "reveal", n |-> 1]
  /\ Len(reveals) = 2
  /\ reveals[1] > 4
  /\ skillShow = {}

\* C13: at most one typeChar timer is pending, at most one item is centered,
\* and the description is a prefix of the centered item's text, empty when no
\* item is centered.
C13_SkillTypewriter ==
  /\ Cardinality(typers) <= 1
  /\ Cardinality(skillCenter) <= 1
  /\ skillCenter = {} => skillDesc = <<>>
  /\ \A s \in skillCenter : IsPrefix(skillDesc, SkillText(s))

\* ------------------------------------------------------- claims on the form

\* C14: a submit sets the status to the sending message and makes exactly one
\* fetch; when a fetch ends with an ok response the status becomes the
\* success message, the fields are cleared and one auto-clear timer starts;
\* the timer's firing empties the status, and it does fire.
C14_FormSuccess ==
  /\ [][/\ formEv'.type = "submit" =>
             /\ formStatus' = Sending
             /\ issued' = issued + 1
             /\ requests' = requests \cup {issued'}
             /\ issued' \notin requests
        /\ formEv'.type = "ok" =>
             /\ formStatus' = Success
             /\ ~formFilled'
             /\ clearTimers' = clearTimers + 1
             /\ issued' = issued
        /\ formEv'.type = "clear" => formStatus' = Empty]_vars
  /\ (formEv.type = "ok") ~> (formStatus = Empty)

\* One submit, answered ok, and its timer has fired.
C14_Witness ==
  /\ formEv.type = "clear"
  /\ issued = 1
  /\ formOutcomes = {"ok"}
  /\ formStatus = Empty
  /\ ~formFilled

\* C15: a response that is not ok sets the generic failure message, a
\* rejected fetch the network-error message; in both cases the fields keep
\* their content, no auto-clear timer starts and no fetch is made.
C15_FormFailure ==
  [][/\ formEv'.type = "notok" => formStatus' = Failure
     /\ formEv'.type = "reject" => formStatus' = NetworkError
     /\ formEv'.type \in {"notok", "reject"} =>
          /\ UNCHANGED <<formFilled, clearTimers, issued>>
          /\ requests' = requests \ {formEv'.r}]_vars

\* Both failures were delivered, the fields still hold the user's input and
\* nothing is pending.
C15_Witness ==
  /\ formEv.type = "reject"
  /\ formOutcomes = {"notok", "reject"}
  /\ formStatus = NetworkError
  /\ formFilled
  /\ clearTimers = 0
  /\ requests = {}

\* ------------------------------------------------- claims on the positions

\* The point p lies in the box of size dim: 0 <= x < w and 0 <= y < h.
InBox(p, dim) == 0 <= p.x /\ p.x < dim.w /\ 0 <= p.y /\ p.y < dim.h

\* The three layers, each right after its resize handler ran.
SparklesResized == layerEv = "resizeCanvas" => InBox(sparkle, sparkleDim)
ContactResized == layerEv = "particlesResize" => (InBox(dust, particleDim) /\ InBox(car, particleDim))
WheelsResizedInBox == layerEv = "wheelsResize" => \A p \in wheels : InBox(p, sectionRect)

\* C16: right after a layer's resize handler ran, every particle of the layer
\* lies in the new box: 0 <= x < width and 0 <= y < height.
C16_ResizeInBounds == SparklesResized /\ ContactResized /\ WheelsResizedInBox

\* --------------------------------------------------- claims on the bootstrap

\* C17: whatever expected elements are absent, in a browser that has every
\* capability no initializer and no handler throws.
C17_MissingElementsNoThrow == caps = Caps => errors = {}

\* C18: in the complete document, whatever capabilities are unavailable,
\* nothing throws, every initializer returns, the teardown listeners are
\* registered and the skill items have their click listener.
C18_CapabilityDegrades ==
  (absent = {} /\ booted) =>
    /\ errors = {}
    /\ bootDone = {Modules[n] : n \in 1..Len(Modules)}
    /\ TeardownHooks \subseteq wired
    /\ "skillClick" \in wired

\* --------------------------------------------------- claims on the scrolling

\* Nothing scrolls any more: no smooth scroll goes on, no scroll event waits.
AtRest == smooth = NoScroll /\ ~scrollQueued

\* C19: once the scrolling that a navigation control started has come to
\* rest, the page is at the offset of the control's target section.
C19_NavigationArrives == (AtRest /\ navTarget # NoScroll) => scrollY = navTarget

\* ----------------------------------------------------- claims on the car

\* C20: after the initial placement, after every select and after every
\* debounced resize snap the car's offset lies in
\* [0, max(0, trackWidth - carWidth)].
C20_CarInRange ==
  ~roadResize => (0 <= carX /\ carX <= Max(0, roadWidth - CarWidth))

\* ------------------------------------------- claims on the roadmap's guard

\* This step delivered a select (of any pin).
Selected == selects' = selects + 1

\* This step ran the onEnd listener of moveCarTo: the listener is registered
\* before the step and removed by it, which only its own run does.
OnEndRan == onEnd /\ ~onEnd' /\ carAnimating /\ ~carAnimating'

\* The offset moveCarTo gives the car for the active pin.
TargetOfActive ==
  moveCarToUnguarded(CarState, activePin, roadWidth).carX

\* C21: the moving guard is set only by a select that starts a car move and
\* is cleared only by the run of the transitionend listener; a select that
\* arrives while the guard is set leaves the car's offset, transition and
\* listener as they are; and once the guard is set with no transition left
\* to end, every step leaves it so: it stays set for ever.
C21_MovingGuard ==
  /\ [][(~isMoving /\ isMoving') =>
          (Selected /\ carTransition' = "timed" /\ onEnd'
             /\ carX' = moveCarToUnguarded(CarState, lastSelect', roadWidth).carX)]_vars
  /\ [][(isMoving /\ ~isMoving') => OnEndRan]_vars
  /\ [][(isMoving /\ Selected) =>
          UNCHANGED <<isMoving, carX, carTransition, carAnimating, onEnd>>]_vars
  /\ [][(isMoving /\ ~carAnimating) => (isMoving' /\ ~carAnimating')]_vars

\* C21 witness: the guard is set, no transition is left to end, two selects
\* were delivered and the car is not at the active waypoint's offset: the
\* last select arrived under the stuck guard and did not move the car.
C21_Witness ==
  /\ isMoving
  /\ ~carAnimating
  /\ ~roadResize
  /\ carTransition = "timed"
  /\ selects >= 2
  /\ carX # TargetOfActive

\* -------------------------------------------- claims on the roadmap's link

\* This step ran an interval callback that left a link on #descText.
LinkAppended ==
  /\ nextTimer' = nextTimer
  /\ descLink' # Null
  /\ \/ intervals' # intervals
     \/ descText' # descText
     \/ descLink' # descLink

SnappedWhileMoving == isMoving /\ carTransition = "none"

\* C25: after a resize snap that ran while the moving guard was set, the
\* guard is eventually released.
C25_GuardReleasedAfterSnap == SnappedWhileMoving ~> ~isMoving

\* ------------------------------------------ claims on the particles' bounds

InCanvas(p, dim) == 0 <= p.x /\ p.x <= dim.w /\ 0 <= p.y /\ p.y <= dim.h

\* The bounce range of animateWheels for a section of size rect.
InBounceRange(p, rect) ==
  /\ -WheelOut <= p.x /\ p.x <= rect.w - WheelEdge
  /\ -WheelOut <= p.y /\ p.y <= rect.h - WheelEdge

\* A wheel outside the bounce range heads back into it.
HeadsInward(p, rect) ==
  /\ p.x < -WheelOut => p.speedX > 0
  /\ p.x > rect.w - WheelEdge => p.speedX < 0
  /\ p.y < -WheelOut => p.speedY > 0
  /\ p.y > rect.h - WheelEdge => p.speedY < 0

SparkleFrameInCanvas == layerEv = "drawSparkles" => InCanvas(sparkle, sparkleDim)
ContactFrameInCanvas ==
  layerEv = "loop" => (InCanvas(dust, particleDim) /\ InCanvas(car, particleDim))
WheelFrameInRange ==
  layerEv = "animateWheels" => \A p \in wheels : InBounceRange(p, sectionRect)
WheelFrameHeadsInward ==
  layerEv = "animateWheels" => \A p \in wheels : HeadsInward(p, sectionRect)

\* C23: after every frame update the sparkle, the dust particle and the car
\* particle are inside their canvas and the wheel is inside the bounce range;
\* a wheel that is outside the range heads back into it.
C23_ParticlesInBounds ==
  /\ SparkleFrameInCanvas
  /\ ContactFrameInCanvas
  /\ WheelFrameInRange
  /\ WheelFrameHeadsInward

\* ------------------------------------------ claims on overlapping submits

\* C24: the firing of an auto-clear timer never empties a status that shows
\* the sending, the failure or the network-error message: it erases a
\* success message only (or finds the status already empty).
C24_ClearOnlySuccess ==
  [][formEv'.type = "clear" => formStatus \notin {Sending, Failure, NetworkError}]_vars

\* ------------------------------------------ claims on the overflow restore

\* C26: once every restore timer of the hero arrow has fired, the inline
\* overflow of <html> and <body> is what it was when the page was loaded
\* (nothing but the hero arrow writes it, so that is its value before the
\* first click).
C26_OverflowRestored ==
  restores = <<>> =>
    /\ htmlOverflow = overflowAtLoad.html
    /\ bodyOverflow = overflowAtLoad.body

\* --------------------------------------------- claims on the handle registry

\* C27: the registry holds only handles of frame requests that are
\* outstanding, so it never holds more handles than there are loops.
C27_RegistryOutstanding ==
  /\ \A i \in 1..Len(_rafIds) : \E f \in frames : f.id = _rafIds[i]
  /\ Len(_rafIds) <= Cardinality(Loops)

====
